---- MODULE Spec2Model ----
(***************************************************************************)
(* A model of main.py, the minimal Forth interpreter of "Make Your Own     *)
(* Programming Language in 30 Minutes".                                    *)
(*                                                                         *)
(* A word is the sequence of its characters, a program is the Python list  *)
(* that interpret() pops from (first word LAST), the value stack is the    *)
(* Python list that the builtins pop from and append to.  Two              *)
(* specifications are given: Spec is the command-line driver               *)
(* (__main__), SpecInterp is one call interpret(program, stack) made by a  *)
(* caller that passes both arguments, SpecSession is a caller that makes   *)
(* several calls interpret(program) in a row, SpecLoop is one call that    *)
(* runs a counting loop, under the assumption that the interpreter keeps   *)
(* running.                                                                *)
(***************************************************************************)
EXTENDS Integers, Sequences, FiniteSets, TLC

VARIABLES
    argv,          \* sys.argv, argv[1] is the script name (Python's argv[0])
    k,             \* number of iterations of `for file in sys.argv[1:]` started
    program,       \* the list `program` of interpret(): remaining words, next word last
    stack,         \* the list `stack` of interpret()
    definitions,   \* the module-level dict `definitions`
    err,           \* the exception raised by the running call, or None
    pc,            \* control position
    output,        \* what was written to standard output, in order
    exit,          \* <<>> while the process runs, <<status>> once it has ended
    steps,         \* iterations of the while loop of the current interpret() call
    call,          \* the arguments of the current interpret() call
    last           \* the word taken by the latest iteration and the branch it took

vars == <<argv, k, program, stack, definitions, err, pc, output, exit, steps, call, last>>

-----------------------------------------------------------------------------
(* Bounds of the model *)

MaxArgs == 2
MaxSteps == 20
MaxMagnitude == 1000
MaxProgLen == 2
MaxBodyLen == 2
MaxExprLen == 5
MaxCalls == 2

-----------------------------------------------------------------------------
(* Python lists *)

Last(s) == s[Len(s)]
Front(s) == SubSeq(s, 1, Len(s) - 1)

RECURSIVE Reverse(_)
Reverse(s) == IF s = <<>> THEN <<>> ELSE Append(Reverse(Tail(s)), Head(s))

RECURSIVE Flatten(_)
Flatten(ss) == IF ss = <<>> THEN <<>> ELSE Head(ss) \o Flatten(Tail(ss))

\* Python's 0-based list[i]
At(list, i) == list[i + 1]

RECURSIVE SeqsUpTo(_, _)
SeqsUpTo(S, n) ==
    IF n = 0 THEN {<<>>}
    ELSE LET shorter == SeqsUpTo(S, n - 1)
         IN  shorter \cup {Append(s, x) : s \in shorter, x \in S}

-----------------------------------------------------------------------------
(* Words *)

W_plus   == <<"+">>
W_times  == <<"*">>
W_minus  == <<"-">>
W_dup    == <<"d", "u", "p">>
W_define == <<":">>
W_end    == <<";">>
W_unless == <<"u", "n", "l", "e", "s", "s">>
W_equals == <<"=", "=">>
W_print  == <<"p", "r", "i", "n", "t">>

\* the keys of the dict `builtins` once the module is loaded
BuiltinNames ==
    {W_plus, W_times, W_minus, W_dup, W_define, W_unless, W_equals, W_print}

Digits == {"0", "1", "2", "3", "4", "5", "6", "7", "8", "9"}

DigitValue(c) ==
    CASE c = "0" -> 0 [] c = "1" -> 1 [] c = "2" -> 2 [] c = "3" -> 3
      [] c = "4" -> 4 [] c = "5" -> 5 [] c = "6" -> 6 [] c = "7" -> 7
      [] c = "8" -> 8 [] c = "9" -> 9

\* str.isnumeric() on an ASCII word: non-empty and every character a digit
isnumeric(word) == Len(word) > 0 /\ \A i \in 1..Len(word) : word[i] \in Digits

\* int(word) for a word of decimal digits
RECURSIVE int(_)
int(word) ==
    IF word = <<>> THEN 0
    ELSE 10 * int(Front(word)) + DigitValue(Last(word))

-----------------------------------------------------------------------------
(* Values: Python ints and bools.  A bool is an int (True is 1, False is   *)
(* 0) that prints differently; n is its numeric value.                     *)

IntV(n) == [tag |-> "int", n |-> n]
BoolV(b) == [tag |-> "bool", n |-> IF b THEN 1 ELSE 0]

\* Python truth value of an int or bool
Truthy(v) == v.n # 0

-----------------------------------------------------------------------------
(* Exceptions *)

None == [type |-> "None", msg |-> ""]
\* list.pop() on an empty list
PopFromEmptyList == [type |-> "IndexError", msg |-> "pop from empty list"]
\* list[-1] on an empty list
ListIndexOutOfRange == [type |-> "IndexError", msg |-> "list index out of range"]
\* sys.exit(1)
SystemExit1 == [type |-> "SystemExit", msg |-> "1"]

-----------------------------------------------------------------------------
(* The state that interpret() and the builtins read and write, as a record *)

EmptyDict == [w \in {} |-> <<>>]

DictSet(d, key, value) ==
    [w \in (DOMAIN d) \cup {key} |-> IF w = key THEN value ELSE d[w]]

Machine ==
    [program |-> program, stack |-> stack, definitions |-> definitions,
     err |-> err, output |-> output]

Raise(m, e) == [m EXCEPT !.err = e]

-----------------------------------------------------------------------------
(* The builtins.  Each takes the machine after `word = program.pop()`.     *)

\* builtins['+'] = lambda p, stack: stack.append(stack.pop() + stack.pop())
builtin_plus(m) ==
    IF Len(m.stack) = 0 THEN Raise(m, PopFromEmptyList)
    ELSE IF Len(m.stack) = 1
    THEN Raise([m EXCEPT !.stack = <<>>], PopFromEmptyList)
    ELSE LET a == Last(m.stack)
             b == Last(Front(m.stack))
         IN  [m EXCEPT !.stack = Append(Front(Front(m.stack)), IntV(a.n + b.n))]

\* builtins['*'] = lambda p, stack: stack.append(stack.pop() * stack.pop())
builtin_times(m) ==
    IF Len(m.stack) = 0 THEN Raise(m, PopFromEmptyList)
    ELSE IF Len(m.stack) = 1
    THEN Raise([m EXCEPT !.stack = <<>>], PopFromEmptyList)
    ELSE LET a == Last(m.stack)
             b == Last(Front(m.stack))
         IN  [m EXCEPT !.stack = Append(Front(Front(m.stack)), IntV(a.n * b.n))]

\* faulty variant: the operands of the subtraction taken in the other order
subtract_swapped(m) ==
    IF Len(m.stack) = 0 THEN Raise(m, PopFromEmptyList)
    ELSE IF Len(m.stack) = 1
    THEN Raise([m EXCEPT !.stack = <<>>], PopFromEmptyList)
    ELSE LET minuend == Last(m.stack)
             subtrahend == Last(Front(m.stack))
         IN  [m EXCEPT !.stack =
                 Append(Front(Front(m.stack)), IntV(minuend.n - subtrahend.n))]

\* def subtract(program, stack)
subtract(m) ==
    IF Len(m.stack) = 0 THEN Raise(m, PopFromEmptyList)
    ELSE IF Len(m.stack) = 1
    THEN Raise([m EXCEPT !.stack = <<>>], PopFromEmptyList)
    ELSE LET subtrahend == Last(m.stack)
             minuend == Last(Front(m.stack))
         IN  [m EXCEPT !.stack =
                 Append(Front(Front(m.stack)), IntV(minuend.n - subtrahend.n))]

\* def dup(program, stack)
dup(m) ==
    IF Len(m.stack) = 0 THEN Raise(m, PopFromEmptyList)
    ELSE LET value == Last(m.stack)
         IN  [m EXCEPT !.stack = Append(Append(Front(m.stack), value), value)]

\* the loop `while program[-1] != ';': definition.append(program.pop())`
RECURSIVE define_scan(_, _)
define_scan(prog, definition) ==
    IF prog = <<>>
    THEN [program |-> prog, definition |-> definition, err |-> ListIndexOutOfRange]
    ELSE IF Last(prog) = W_end
    THEN [program |-> prog, definition |-> definition, err |-> None]
    ELSE define_scan(Front(prog), Append(definition, Last(prog)))

\* faulty variant: define without definition.reverse()
define_unreversed(m) ==
    IF m.program = <<>> THEN Raise(m, PopFromEmptyList)
    ELSE LET name == Last(m.program)
             scan == define_scan(Front(m.program), <<>>)
         IN  IF scan.err # None
             THEN Raise([m EXCEPT !.program = scan.program], scan.err)
             ELSE [m EXCEPT !.program = Front(scan.program),
                            !.definitions = DictSet(@, name, scan.definition)]

\* faulty variant: define without the program.pop() that removes `;`
define_keeps_end(m) ==
    IF m.program = <<>> THEN Raise(m, PopFromEmptyList)
    ELSE LET name == Last(m.program)
             scan == define_scan(Front(m.program), <<>>)
         IN  IF scan.err # None
             THEN Raise([m EXCEPT !.program = scan.program], scan.err)
             ELSE [m EXCEPT !.program = scan.program,
                            !.definitions = DictSet(@, name, Reverse(scan.definition))]

\* def define(program, stack)
define(m) ==
    IF m.program = <<>> THEN Raise(m, PopFromEmptyList)
    ELSE LET name == Last(m.program)
             scan == define_scan(Front(m.program), <<>>)
         IN  IF scan.err # None
             THEN Raise([m EXCEPT !.program = scan.program], scan.err)
             ELSE [m EXCEPT !.program = Front(scan.program),
                            !.definitions = DictSet(@, name, Reverse(scan.definition))]

\* faulty variant: the next word skipped when the condition is false
unless_inverted(m) ==
    IF Len(m.stack) = 0 THEN Raise(m, PopFromEmptyList)
    ELSE LET popped == [m EXCEPT !.stack = Front(m.stack)]
         IN  IF ~Truthy(Last(m.stack))
             THEN IF popped.program = <<>>
                  THEN Raise(popped, PopFromEmptyList)
                  ELSE [popped EXCEPT !.program = Front(popped.program)]
             ELSE popped

\* faulty variant: the condition read as stack[-1] and left on the stack
unless_peeks(m) ==
    IF Len(m.stack) = 0 THEN Raise(m, ListIndexOutOfRange)
    ELSE IF Truthy(Last(m.stack))
    THEN IF m.program = <<>>
         THEN Raise(m, PopFromEmptyList)
         ELSE [m EXCEPT !.program = Front(m.program)]
    ELSE m

\* faulty variant: the next word popped before the condition
unless_takes_word_first(m) ==
    IF m.program = <<>> THEN Raise(m, PopFromEmptyList)
    ELSE LET taken == [m EXCEPT !.program = Front(m.program)]
         IN  IF Len(m.stack) = 0 THEN Raise(taken, PopFromEmptyList)
             ELSE IF Truthy(Last(m.stack))
             THEN [taken EXCEPT !.stack = Front(m.stack)]
             ELSE [m EXCEPT !.stack = Front(m.stack)]

\* faulty variant: nothing is skipped when no word is left
unless_checks_program(m) ==
    IF Len(m.stack) = 0 THEN Raise(m, PopFromEmptyList)
    ELSE LET popped == [m EXCEPT !.stack = Front(m.stack)]
         IN  IF Truthy(Last(m.stack)) /\ popped.program # <<>>
             THEN [popped EXCEPT !.program = Front(popped.program)]
             ELSE popped

\* def unless(program, stack)
unless(m) ==
    IF Len(m.stack) = 0 THEN Raise(m, PopFromEmptyList)
    ELSE LET popped == [m EXCEPT !.stack = Front(m.stack)]
         IN  IF Truthy(Last(m.stack))
             THEN IF popped.program = <<>>
                  THEN Raise(popped, PopFromEmptyList)
                  ELSE [popped EXCEPT !.program = Front(popped.program)]
             ELSE popped

\* faulty variant: == pushes whether the two values differ
builtin_equals_negated(m) ==
    IF Len(m.stack) = 0 THEN Raise(m, PopFromEmptyList)
    ELSE IF Len(m.stack) = 1
    THEN Raise([m EXCEPT !.stack = <<>>], PopFromEmptyList)
    ELSE LET a == Last(m.stack)
             b == Last(Front(m.stack))
         IN  [m EXCEPT !.stack = Append(Front(Front(m.stack)), BoolV(a.n # b.n))]

\* builtins['=='] = lambda p, stack: stack.append(stack.pop() == stack.pop())
builtin_equals(m) ==
    IF Len(m.stack) = 0 THEN Raise(m, PopFromEmptyList)
    ELSE IF Len(m.stack) = 1
    THEN Raise([m EXCEPT !.stack = <<>>], PopFromEmptyList)
    ELSE LET a == Last(m.stack)
             b == Last(Front(m.stack))
         IN  [m EXCEPT !.stack = Append(Front(Front(m.stack)), BoolV(a.n = b.n))]

\* builtins['print'] = lambda p, stack: print(stack.pop())
builtin_print(m) ==
    IF Len(m.stack) = 0 THEN Raise(m, PopFromEmptyList)
    ELSE [m EXCEPT !.stack = Front(m.stack),
                   !.output = Append(@, [kind |-> "print", val |-> Last(m.stack)])]

\* builtins[word](program, stack)
builtins(word, m) ==
    CASE word = W_plus   -> builtin_plus(m)
      [] word = W_times  -> builtin_times(m)
      [] word = W_minus  -> subtract(m)
      [] word = W_dup    -> dup(m)
      [] word = W_define -> define(m)
      [] word = W_unless -> unless(m)
      [] word = W_equals -> builtin_equals(m)
      [] word = W_print  -> builtin_print(m)

-----------------------------------------------------------------------------
(* One iteration of the while loop of interpret()                          *)

\* faulty variant: builtins looked up before definitions
BranchBuiltinFirst(word, defs) ==
    IF word \in BuiltinNames THEN "builtin"
    ELSE IF word \in DOMAIN defs THEN "definition"
    ELSE IF isnumeric(word) THEN "number"
    ELSE "unknown"

\* which branch of the if/elif chain takes `word`
Branch(word, defs) ==
    IF word \in DOMAIN defs THEN "definition"
    ELSE IF word \in BuiltinNames THEN "builtin"
    ELSE IF isnumeric(word) THEN "number"
    ELSE "unknown"

\* faulty variant: the body put at the far end of the program list
expand_in_front(m, word) == [m EXCEPT !.program = m.definitions[word] \o @]

\* faulty variant: the stored body is moved into the program, not copied
expand_moves(m, word) ==
    [m EXCEPT !.program = @ \o m.definitions[word],
              !.definitions = DictSet(@, word, <<>>)]

\* faulty variant: the body spliced twice
expand_twice(m, word) ==
    [m EXCEPT !.program = @ \o m.definitions[word] \o m.definitions[word]]

\* program += definitions[word][:]
expand(m, word) == [m EXCEPT !.program = @ \o m.definitions[word]]

\* faulty variant: the unknown word is reported and the loop goes on
interpret_iteration_reports_only(m) ==
    LET word == Last(m.program)
        popped == [m EXCEPT !.program = Front(m.program)]
        branch == Branch(word, m.definitions)
    IN  CASE branch = "definition" -> expand(popped, word)
          [] branch = "builtin" -> builtins(word, popped)
          [] branch = "number" ->
                [popped EXCEPT !.stack = Append(@, IntV(int(word)))]
          [] branch = "unknown" ->
                [popped EXCEPT
                    !.output = Append(@, [kind |-> "unknown word", val |-> word])]

\* faulty variant: a number is pushed and left in the program
interpret_iteration_keeps_number(m) ==
    LET word == Last(m.program)
        popped == [m EXCEPT !.program = Front(m.program)]
        branch == Branch(word, m.definitions)
    IN  CASE branch = "definition" -> expand(popped, word)
          [] branch = "builtin" -> builtins(word, popped)
          [] branch = "number" ->
                [m EXCEPT !.stack = Append(@, IntV(int(word)))]
          [] branch = "unknown" ->
                [popped EXCEPT
                    !.output = Append(@, [kind |-> "unknown word", val |-> word]),
                    !.err = SystemExit1]

\* the body of `while program:`
interpret_iteration(m) ==
    LET word == Last(m.program)
        popped == [m EXCEPT !.program = Front(m.program)]
        branch == Branch(word, m.definitions)
    IN  CASE branch = "definition" -> expand(popped, word)
          [] branch = "builtin" -> builtins(word, popped)
          [] branch = "number" ->
                [popped EXCEPT !.stack = Append(@, IntV(int(word)))]
          [] branch = "unknown" ->
                [popped EXCEPT
                    !.output = Append(@, [kind |-> "unknown word", val |-> word]),
                    !.err = SystemExit1]

-----------------------------------------------------------------------------
(* The file system and the tokenizer                                       *)

Whitespace == {" ", "\n", "\t"}

\* str.split(): the maximal runs of non-whitespace characters, in order
RECURSIVE split_from(_, _, _)
split_from(text, word, words) ==
    IF text = <<>>
    THEN IF word = <<>> THEN words ELSE Append(words, word)
    ELSE IF Head(text) \in Whitespace
    THEN split_from(Tail(text), <<>>,
                    IF word = <<>> THEN words ELSE Append(words, word))
    ELSE split_from(Tail(text), Append(word, Head(text)), words)

split(text) == split_from(text, <<>>, <<>>)

SP == <<" ">>
NL == <<"\n">>
W_0    == <<"0">>
W_1    == <<"1">>
W_2    == <<"2">>
W_3    == <<"3">>
W_5    == <<"5">>
W_12   == <<"1", "2">>
W_99   == <<"9", "9">>
W_sq   == <<"s", "q">>
W_down == <<"d", "o", "w", "n">>
W_1x   == <<"1", "x">>

Paths ==
    {"square.fth", "shadow.fth", "digits.fth", "loop.fth", "unknown.fth",
     "underflow.fth", "blank.fth", "skip.fth"}

\* f.read() of the file at `path`
read(path) ==
    CASE path = "square.fth" ->
            Flatten(<<W_define, SP, W_sq, SP, W_dup, SP, W_times, SP, W_end, NL,
                      W_3, SP, W_sq, SP, W_print, NL>>)
      [] path = "shadow.fth" ->
            Flatten(<<W_1, SP, W_2, SP, W_plus, SP, SP, W_define, SP, W_plus, SP,
                      W_minus, SP, W_end, NL, W_5, SP, W_3, SP, W_plus>>)
      [] path = "digits.fth" ->
            Flatten(<<W_define, SP, W_12, SP, W_3, SP, W_end, NL,
                      W_12, SP, W_12, SP, W_times, NL>>)
      [] path = "loop.fth" ->
            Flatten(<<W_2, NL, W_define, SP, W_down, SP, W_1, SP, W_minus, SP,
                      W_dup, SP, W_0, SP, W_equals, SP, W_unless, SP, W_down, SP,
                      W_end, NL, W_down, NL>>)
      [] path = "unknown.fth" -> Flatten(<<W_5, SP, W_1x, SP, W_1>>)
      [] path = "underflow.fth" -> Flatten(<<SP, W_plus, NL>>)
      [] path = "blank.fth" -> Flatten(<<SP, NL, <<"\t">>, NL>>)
      [] path = "skip.fth" ->
            Flatten(<<W_0, SP, W_2, SP, W_unless, SP, W_99, NL>>)

\* the command lines: the script name followed by up to MaxArgs arguments
CommandLines ==
    {<<"main.py">> \o args : args \in SeqsUpTo(Paths \cup {"-h", "--help"}, MaxArgs)}

-----------------------------------------------------------------------------
(* Actions: the while loop of interpret(), one action per branch and       *)
(* builtin                                                                 *)

NoLast == [word |-> <<>>, branch |-> "none"]

\* Python's integers are unbounded; the model follows a run while every value
\* on the stack is within MaxMagnitude, and for at most MaxSteps iterations
InRange(v) == -MaxMagnitude <= v.n /\ v.n <= MaxMagnitude

Looping ==
    /\ pc = "while"
    /\ program # <<>>
    /\ steps < MaxSteps
    /\ \A i \in 1..Len(stack) : InRange(stack[i])

Word == Last(program)

\* one iteration of the loop, on the variables
Iteration ==
    LET m == interpret_iteration(Machine)
    IN  /\ program' = m.program
        /\ stack' = m.stack
        /\ definitions' = m.definitions
        /\ err' = m.err
        /\ output' = m.output
        /\ steps' = steps + 1
        /\ last' = [word |-> Word, branch |-> Branch(Word, definitions)]
        /\ pc' = IF m.err = None THEN "while" ELSE "raised"
        /\ UNCHANGED <<argv, k, exit, call>>

ExpandDefinition ==
    /\ Looping
    /\ Branch(Word, definitions) = "definition"
    /\ Iteration

CallPlus ==
    /\ Looping
    /\ Branch(Word, definitions) = "builtin"
    /\ Word = W_plus
    /\ Iteration

CallTimes ==
    /\ Looping
    /\ Branch(Word, definitions) = "builtin"
    /\ Word = W_times
    /\ Iteration

CallMinus ==
    /\ Looping
    /\ Branch(Word, definitions) = "builtin"
    /\ Word = W_minus
    /\ Iteration

CallDup ==
    /\ Looping
    /\ Branch(Word, definitions) = "builtin"
    /\ Word = W_dup
    /\ Iteration

CallDefine ==
    /\ Looping
    /\ Branch(Word, definitions) = "builtin"
    /\ Word = W_define
    /\ Iteration

CallUnless ==
    /\ Looping
    /\ Branch(Word, definitions) = "builtin"
    /\ Word = W_unless
    /\ Iteration

CallEquals ==
    /\ Looping
    /\ Branch(Word, definitions) = "builtin"
    /\ Word = W_equals
    /\ Iteration

CallPrint ==
    /\ Looping
    /\ Branch(Word, definitions) = "builtin"
    /\ Word = W_print
    /\ Iteration

PushNumber ==
    /\ Looping
    /\ Branch(Word, definitions) = "number"
    /\ Iteration

UnknownWord ==
    /\ Looping
    /\ Branch(Word, definitions) = "unknown"
    /\ Iteration

\* `while program:` is false: return stack
Return ==
    /\ pc = "while"
    /\ program = <<>>
    /\ pc' = "returned"
    /\ UNCHANGED <<argv, k, program, stack, definitions, err, output, exit, steps,
                   call, last>>

-----------------------------------------------------------------------------
(* Actions: the driver (__main__)                                          *)

HelpText == [kind |-> "help", val |-> <<>>]

\* len(sys.argv) <= 1 or sys.argv[1] == '-h' or sys.argv[1] == '--help'
HelpRequested ==
    IF Len(argv) <= 1 THEN TRUE
    ELSE IF At(argv, 1) = "-h" THEN TRUE
    ELSE At(argv, 1) = "--help"

Help ==
    /\ pc = "main"
    /\ HelpRequested
    /\ output' = Append(output, HelpText)
    /\ exit' = <<0>>
    /\ pc' = "exited"
    /\ UNCHANGED <<argv, k, program, stack, definitions, err, steps, call, last>>

EnterLoop ==
    /\ pc = "main"
    /\ ~HelpRequested
    /\ pc' = "for"
    /\ UNCHANGED <<argv, k, program, stack, definitions, err, output, exit, steps,
                   call, last>>

\* the path that the body of the for loop opens
OpenedPath == At(argv, 1)

\* the list object bound to `stack` when interpret() is called without one:
\* the default `[]` is built once, when the def statement runs, and every
\* such call gets that same list with whatever it holds by then
DefaultStack == stack

\* faulty variant: every interpretation started with an empty definitions dict
ForFileNewDefinitions ==
    /\ pc = "for"
    /\ k < Len(argv) - 1
    /\ LET words == split(read(OpenedPath))
       IN  /\ program' = Reverse(words)
           /\ stack' = DefaultStack
           /\ call' = [words |-> words, stack |-> DefaultStack, default |-> TRUE]
    /\ k' = k + 1
    /\ steps' = 0
    /\ last' = NoLast
    /\ pc' = "while"
    /\ definitions' = EmptyDict
    /\ UNCHANGED <<argv, err, output, exit>>

\* one iteration of `for file in sys.argv[1:]` up to the call interpret(program)
ForFile ==
    /\ pc = "for"
    /\ k < Len(argv) - 1
    /\ LET words == split(read(OpenedPath))
       IN  /\ program' = Reverse(words)
           /\ stack' = DefaultStack
           /\ call' = [words |-> words, stack |-> DefaultStack, default |-> TRUE]
    /\ k' = k + 1
    /\ steps' = 0
    /\ last' = NoLast
    /\ pc' = "while"
    /\ UNCHANGED <<argv, definitions, err, output, exit>>

\* print(interpret(program))
PrintResult ==
    /\ pc = "returned"
    /\ output' = Append(output, [kind |-> "result", val |-> stack])
    /\ pc' = "for"
    /\ UNCHANGED <<argv, k, program, stack, definitions, err, exit, steps, call,
                   last>>

\* the for loop is exhausted: the script ends
ForEnd ==
    /\ pc = "for"
    /\ k = Len(argv) - 1
    /\ exit' = <<0>>
    /\ pc' = "exited"
    /\ UNCHANGED <<argv, k, program, stack, definitions, err, output, steps, call,
                   last>>

\* SystemExit(1) or an exception nobody catches ends the process with status 1
Uncaught ==
    /\ pc = "raised"
    /\ exit' = <<1>>
    /\ pc' = "exited"
    /\ UNCHANGED <<argv, k, program, stack, definitions, err, output, steps, call,
                   last>>

-----------------------------------------------------------------------------
(* Spec: the process `python main.py args...`                              *)

Init ==
    /\ argv \in CommandLines
    /\ k = 0
    /\ program = <<>>
    /\ stack = <<>>
    /\ definitions = EmptyDict
    /\ err = None
    /\ pc = "main"
    /\ output = <<>>
    /\ exit = <<>>
    /\ steps = 0
    /\ call = [words |-> <<>>, stack |-> <<>>, default |-> TRUE]
    /\ last = NoLast

Next ==
    \/ Help
    \/ EnterLoop
    \/ ForFile
    \/ ExpandDefinition
    \/ CallPlus
    \/ CallTimes
    \/ CallMinus
    \/ CallDup
    \/ CallDefine
    \/ CallUnless
    \/ CallEquals
    \/ CallPrint
    \/ PushNumber
    \/ UnknownWord
    \/ Return
    \/ PrintResult
    \/ ForEnd
    \/ Uncaught

Spec == Init /\ [][Next]_vars

-----------------------------------------------------------------------------
(* SpecInterp: one call interpret(program, stack) by a caller that has     *)
(* just loaded the module (no definitions yet) and passes a stack          *)

\* the words of the general programs: every builtin, the terminator, three
\* numbers, a name that is no builtin and a word that is nothing
Words == BuiltinNames \cup {W_end, W_0, W_1, W_12, W_sq, W_1x}

Seeds ==
    { <<>>,
      <<IntV(5)>>,
      <<IntV(7), IntV(0)>>,
      <<IntV(4), IntV(-1)>>,
      <<IntV(7), BoolV(TRUE)>>,
      <<IntV(7), BoolV(FALSE)>> }

\* every program of at most MaxProgLen words, on every seed
GeneralCalls ==
    {[words |-> ws, stack |-> s, default |-> FALSE] :
        ws \in SeqsUpTo(Words, MaxProgLen), s \in Seeds}

\* `: W body ;` followed by an invocation of W and a tail: W a fresh name, a
\* builtin name or a digit string, body every sequence of at most MaxBodyLen
\* words other than `;`
DefinedNames == {W_sq, W_plus, W_12}
Tails == {<<>>, <<W_1>>, <<W_unless, W_sq>>, <<W_dup, W_plus>>}
DefinitionSeeds == {<<>>, <<IntV(2), IntV(3)>>, <<IntV(2), IntV(0)>>}

DefinitionCalls ==
    {[words |-> <<W_define, W>> \o body \o <<W_end, W>> \o tail,
      stack |-> s, default |-> FALSE] :
        W \in DefinedNames, body \in SeqsUpTo(Words \ {W_end}, MaxBodyLen),
        tail \in Tails, s \in DefinitionSeeds}

\* the postfix expressions of at most MaxExprLen words over three numbers and
\* `+`, `*`, `-`: every prefix holds more numbers than operators and the whole
\* holds exactly one more
Numbers == {W_0, W_2, W_12}
Operators == {W_plus, W_times, W_minus}

RECURSIVE Height(_)
Height(ws) ==
    IF ws = <<>> THEN 0
    ELSE Height(Front(ws)) + (IF Last(ws) \in Operators THEN -1 ELSE 1)

WellFormed(ws) ==
    /\ ws # <<>>
    /\ \A i \in 1..Len(ws) : Height(SubSeq(ws, 1, i)) >= 1
    /\ Height(ws) = 1

ExpressionCalls ==
    {[words |-> ws, stack |-> <<>>, default |-> FALSE] :
        ws \in {e \in SeqsUpTo(Numbers \cup Operators, MaxExprLen) : WellFormed(e)}}

\* the four `unless` programs of the documentation's example and its mirror
ExampleCalls ==
    {[words |-> ws, stack |-> <<>>, default |-> FALSE] :
        ws \in { <<W_1, W_2, W_unless, W_99>>, <<W_0, W_2, W_unless, W_99>>,
                 <<W_2, W_1, W_unless, W_99>>, <<W_2, W_0, W_unless, W_99>> }}

\* programs that define a second word once a first one is defined
RedefinitionCalls ==
    {[words |-> ws, stack |-> s, default |-> FALSE] :
        ws \in { <<W_define, W_sq, W_dup, W_times, W_end,
                   W_define, W_12, W_sq, W_sq, W_end, W_12>>,
                 <<W_define, W_sq, W_dup, W_times, W_end,
                   W_define, W_sq, W_sq, W_1, W_plus, W_end, W_sq>> },
        s \in {<<IntV(2)>>, <<IntV(3)>>}}

Calls ==
    GeneralCalls \cup DefinitionCalls \cup ExpressionCalls \cup ExampleCalls
        \cup RedefinitionCalls

InitInterp ==
    /\ call \in Calls
    /\ program = Reverse(call.words)
    /\ stack = call.stack
    /\ definitions = EmptyDict
    /\ err = None
    /\ pc = "while"
    /\ output = <<>>
    /\ exit = <<>>
    /\ steps = 0
    /\ last = NoLast
    /\ argv = <<>>
    /\ k = 0

NextInterp ==
    \/ ExpandDefinition
    \/ CallPlus
    \/ CallTimes
    \/ CallMinus
    \/ CallDup
    \/ CallDefine
    \/ CallUnless
    \/ CallEquals
    \/ CallPrint
    \/ PushNumber
    \/ UnknownWord
    \/ Return

SpecInterp == InitInterp /\ [][NextInterp]_vars

-----------------------------------------------------------------------------
(* Vocabulary of the properties                                            *)

\* a step of the while loop that takes a word
TakesWord == pc = "while" /\ program # <<>> /\ steps' = steps + 1

Range(s) == {s[i] : i \in 1..Len(s)}

\* "nonzero Integer or true Boolean"
IsTruthy(v) == (v.tag = "int" /\ v.n # 0) \/ (v.tag = "bool" /\ v.n = 1)
\* "zero Integer or false Boolean"
IsFalsy(v) == (v.tag = "int" /\ v.n = 0) \/ (v.tag = "bool" /\ v.n = 0)

\* a word made of decimal digits only
DigitString(w) == w # <<>> /\ Range(w) \subseteq Digits

\* m after at most n iterations of the while loop
RECURSIVE Run(_, _)
Run(m, n) ==
    IF n = 0 \/ m.program = <<>> \/ m.err # None THEN m
    ELSE Run(interpret_iteration(m), n - 1)

\* the machine at the start of interpret(Reverse(ws), s) with no definitions
Start(ws, s) ==
    [program |-> Reverse(ws), stack |-> s, definitions |-> EmptyDict,
     err |-> None, output |-> <<>>]

-----------------------------------------------------------------------------
(* C1: invoking a defined word is the same as writing its body in its      *)
(* place.                                                                  *)

\* the position of the first `;` of ws, 0 when there is none
FirstEnd(ws) ==
    IF W_end \in Range(ws)
    THEN CHOOSE i \in 1..Len(ws) :
            ws[i] = W_end /\ \A j \in 1..(i - 1) : ws[j] # W_end
    ELSE 0

\* ws is `: W b1 ... bn ; W R`
DefinesThenInvokes(ws) ==
    /\ Len(ws) >= 4
    /\ ws[1] = W_define
    /\ FirstEnd(ws) >= 3
    /\ FirstEnd(ws) < Len(ws)
    /\ ws[FirstEnd(ws) + 1] = ws[2]

BodyOf(ws) == SubSeq(ws, 3, FirstEnd(ws) - 1)
RestOf(ws) == SubSeq(ws, FirstEnd(ws) + 2, Len(ws))

\* `: W b1 ... bn ; b1 ... bn R`
Inlined(ws) == SubSeq(ws, 1, FirstEnd(ws)) \o BodyOf(ws) \o RestOf(ws)

\* C1: in a run of `: W b1 ... bn ; W R`, once W has been expanded the words
\* still to run are b1 ... bn R in that order, and from then on the run is,
\* iteration for iteration, the run of `: W b1 ... bn ; b1 ... bn R` one
\* iteration behind: same remaining program, stack, definitions, output and
\* failure, hence the same final stack, definitions and outcome.
C1_InvocationIsInlining ==
    (DefinesThenInvokes(call.words) /\ steps >= 2) =>
        /\ steps = 2 => program = Reverse(BodyOf(call.words) \o RestOf(call.words))
        /\ Machine = Run(Start(Inlined(call.words), call.stack), steps - 1)

\* `: sq dup * ; sq` on the stack [2, 3] has returned [2, 9]
C1_Witness ==
    /\ pc = "returned"
    /\ call.words = <<W_define, W_sq, W_dup, W_times, W_end, W_sq>>
    /\ call.stack = <<IntV(2), IntV(3)>>
    /\ stack = <<IntV(2), IntV(9)>>

-----------------------------------------------------------------------------
(* C2: `unless` pops its condition and skips exactly the next word when    *)
(* the condition is truthy.                                                *)

RunsUnless ==
    /\ TakesWord
    /\ Word = W_unless
    /\ W_unless \notin DOMAIN definitions
    /\ stack # <<>>

\* C2: a step that runs `unless` on a non-empty stack removes the top of the
\* stack and nothing below it; with a truthy top it removes, besides `unless`
\* itself, exactly the next word of the program, unexpanded and unexecuted
\* (no output, no definition changed); with a falsy top it removes `unless`
\* alone, so the next word is the next to be taken.
C2_UnlessSkipsNextWord ==
    [][RunsUnless =>
        /\ stack' = Front(stack)
        /\ definitions' = definitions
        /\ output' = output
        /\ (IsTruthy(Last(stack)) /\ Len(program) >= 2) =>
              /\ program' = SubSeq(program, 1, Len(program) - 2)
              /\ err' = None
        /\ IsFalsy(Last(stack)) =>
              /\ program' = Front(program)
              /\ err' = None
        /\ IsTruthy(Last(stack)) \/ IsFalsy(Last(stack))]_vars

\* `: sq dup * ; sq unless sq` on [2, 3]: `unless` popped 9 and skipped the
\* second `sq`, a defined word with a two-word body
C2_Witness ==
    /\ call.words = <<W_define, W_sq, W_dup, W_times, W_end, W_sq, W_unless, W_sq>>
    /\ call.stack = <<IntV(2), IntV(3)>>
    /\ last = [word |-> W_unless, branch |-> "builtin"]
    /\ definitions[W_sq] = <<W_times, W_dup>>
    /\ program = <<>>
    /\ stack = <<IntV(2)>>
    /\ err = None

-----------------------------------------------------------------------------
(* C3: the documentation's `unless` example                                *)

FromScratch(ws) == call.words = ws /\ call.stack = <<>>

\* C3 as stated: `1 2 unless 99` ends with [2] and `0 2 unless 99` with [2, 99]
C3_AsStated ==
    /\ (pc = "returned" /\ FromScratch(<<W_1, W_2, W_unless, W_99>>)) =>
            stack = <<IntV(2)>>
    /\ (pc = "returned" /\ FromScratch(<<W_0, W_2, W_unless, W_99>>)) =>
            stack = <<IntV(2), IntV(99)>>

\* C3, amended: in `1 2 unless 99` and in `0 2 unless 99` the condition that
\* `unless` pops is the top of the stack, 2, so 99 is skipped and the runs end
\* with [1] and [0]; the stacks [2] and [2, 99] are those of `2 1 unless 99`
\* and `2 0 unless 99`.
C3_UnlessExample ==
    /\ \A c \in {W_0, W_1} :
          FromScratch(<<c, W_2, W_unless, W_99>>) =>
            /\ steps = 2 => stack = <<IntV(int(c)), IntV(2)>>
            /\ steps = 3 => (stack = <<IntV(int(c))>> /\ program = <<>>)
            /\ pc = "returned" => (stack = <<IntV(int(c))>> /\ steps = 3)
            /\ pc # "raised"
    /\ FromScratch(<<W_2, W_1, W_unless, W_99>>) =>
            /\ pc = "returned" => (stack = <<IntV(2)>> /\ steps = 3)
            /\ pc # "raised"
    /\ FromScratch(<<W_2, W_0, W_unless, W_99>>) =>
            /\ pc = "returned" => (stack = <<IntV(2), IntV(99)>> /\ steps = 4)
            /\ pc # "raised"

\* `0 2 unless 99` has returned [0]
C3_Witness ==
    /\ pc = "returned"
    /\ FromScratch(<<W_0, W_2, W_unless, W_99>>)
    /\ last.word = W_unless
    /\ stack = <<IntV(0)>>

-----------------------------------------------------------------------------
(* C4: lookup precedence                                                   *)

\* C4: every step that takes a word w resolves it in the order definition,
\* builtin, digit string, unknown: if w is a key of `definitions` the step
\* only replaces w by its stored body (stack, definitions and output
\* untouched, no failure), whatever else w may name; otherwise if w is a
\* builtin the step is that builtin's; otherwise if w is all digits its value
\* is pushed; otherwise the step fails as an unknown word.
C4_LookupPrecedence ==
    [][TakesWord =>
        LET w == Word
            rest == [Machine EXCEPT !.program = Front(program)]
        IN  IF w \in DOMAIN definitions
            THEN /\ program' = Front(program) \o definitions[w]
                 /\ stack' = stack
                 /\ definitions' = definitions
                 /\ output' = output
                 /\ err' = None
            ELSE IF w \in BuiltinNames
            THEN Machine' = builtins(w, rest)
            ELSE IF DigitString(w)
            THEN /\ Len(stack') = Len(stack) + 1
                 /\ Front(stack') = stack
                 /\ Last(stack').tag = "int"
                 /\ program' = Front(program)
                 /\ err' = None
            ELSE /\ err' = SystemExit1
                 /\ pc' = "raised"
                 /\ stack' = stack
                 /\ program' = Front(program)]_vars

\* in the second interpretation of a file that holds `: + - ;`, a `+` was
\* taken and replaced by the user body `-`
C4_Witness ==
    /\ k = 2
    /\ pc = "while"
    /\ last = [word |-> W_plus, branch |-> "definition"]
    /\ program # <<>>
    /\ Last(program) = W_minus

-----------------------------------------------------------------------------
(* C5: arithmetic agrees with the value of the postfix expression          *)

NumberValue(w) ==
    CASE w = W_0 -> 0 [] w = W_1 -> 1 [] w = W_2 -> 2 [] w = W_12 -> 12

IsExpression(ws) ==
    /\ \A i \in 1..Len(ws) : ws[i] \in Operators \/ DigitString(ws[i])
    /\ WellFormed(ws)

\* where the right operand of the operator that ends e begins: the longest
\* proper suffix of Front(e) that is an expression starts there
RightStart(e) ==
    CHOOSE i \in 2..(Len(e) - 1) :
        /\ WellFormed(SubSeq(e, i, Len(e) - 1))
        /\ WellFormed(SubSeq(e, 1, i - 1))

\* the value of a postfix expression, by its structure: a number, or
\* `left right op`
RECURSIVE PostfixValue(_)
PostfixValue(e) ==
    IF Len(e) = 1 THEN NumberValue(e[1])
    ELSE LET i == RightStart(e)
             left == PostfixValue(SubSeq(e, 1, i - 1))
             right == PostfixValue(SubSeq(e, i, Len(e) - 1))
             op == Last(e)
         IN  CASE op = W_plus -> left + right
               [] op = W_times -> left * right
               [] op = W_minus -> left - right

\* C5: interpreting a well-formed postfix expression over non-negative
\* literals and `+`, `*`, `-` from an empty stack with no definitions never
\* fails, and when it has returned the top of the stack is the integer value
\* of the expression, `a b -` being a minus b.
C5_ArithmeticIsPostfix ==
    (IsExpression(call.words) /\ call.stack = <<>> /\ ~call.default) =>
        /\ pc # "raised"
        /\ pc = "returned" =>
              /\ stack # <<>>
              /\ Last(stack) = IntV(PostfixValue(call.words))

\* `2 12 0 - -` has returned 2 - (12 - 0) = -10
C5_Witness ==
    /\ pc = "returned"
    /\ call.words = <<W_2, W_12, W_0, W_minus, W_minus>>
    /\ call.stack = <<>>
    /\ stack = <<IntV(-10)>>

-----------------------------------------------------------------------------
(* C6: a fresh stack for every interpretation of the driver                *)

\* an interpretation has just been started
AtStart == pc = "while" /\ steps = 0

\* C6: whenever the driver has just called interpret(program), the value
\* stack of that interpretation is empty.
C6_FreshStack == (AtStart /\ call.default) => stack = <<>>

-----------------------------------------------------------------------------
(* C7: the k-th interpretation runs the k-th file                          *)

OnlyPaths == \A i \in 2..Len(argv) : argv[i] \in Paths

\* C7: on a command line of program file paths, the k-th interpretation is
\* started on the words of the k-th path.
C7_KthRunsKthFile ==
    (AtStart /\ OnlyPaths) => call.words = split(read(At(argv, k)))

-----------------------------------------------------------------------------
(* C8: definitions outlive the interpretation that made them               *)

\* a step that runs the builtin `:` with W as the name
Defines(W) ==
    /\ TakesWord
    /\ Word = W_define
    /\ W_define \notin DOMAIN definitions
    /\ Len(program) >= 2
    /\ program[Len(program) - 1] = W

\* C8: the steps that start or end an interpretation (in the driver: every
\* step but an iteration of the while loop) leave the definitions map as it
\* is, and in every step a defined word stays defined, with the same body
\* unless the step runs `:` on that word; so a word defined in one
\* interpretation is defined, with that body, in the later ones until it is
\* redefined.
C8_DefinitionsPersist ==
    [][/\ ~TakesWord => definitions' = definitions
       /\ \A W \in DOMAIN definitions :
            /\ W \in DOMAIN definitions'
            /\ definitions'[W] # definitions[W] => Defines(W)]_vars

\* the second interpretation starts with `sq` defined by the first
C8_Witness ==
    /\ AtStart
    /\ k = 2
    /\ W_sq \in DOMAIN definitions
    /\ definitions[W_sq] = Reverse(<<W_dup, W_times>>)

-----------------------------------------------------------------------------
(* C9: an unterminated definition                                          *)

\* the failure of a value-stack underflow: what stack.pop() raises on []
StackUnderflow == PopFromEmptyList
\* the failure of an unknown word
UnknownWordFailure == SystemExit1

\* Python tells kinds of failure apart by the class of the exception
SameKind(e, f) == e.type = f.type

\* C9: a step that runs the builtin `:` when no `;` is left in the program
\* ends the interpretation with a failure of a kind of its own, neither that
\* of a stack underflow nor that of an unknown word, and leaves the
\* definitions as they are.
C9_UnterminatedDefinition ==
    [][(TakesWord /\ Word = W_define /\ W_define \notin DOMAIN definitions
            /\ W_end \notin Range(Front(program))) =>
        /\ pc' = "raised"
        /\ ~SameKind(err', StackUnderflow)
        /\ ~SameKind(err', UnknownWordFailure)
        /\ definitions' = definitions]_vars

-----------------------------------------------------------------------------
(* C10: stack underflow                                                    *)

\* the number of values a builtin pops
Pops(w) == IF w \in {W_plus, W_times, W_minus, W_equals} THEN 2 ELSE 1

PoppingBuiltins ==
    {W_plus, W_times, W_minus, W_dup, W_equals, W_print, W_unless}

\* C10: a step that runs one of `+ * - dup == print unless` on a stack
\* holding fewer values than it pops raises the stack-underflow failure and
\* takes no word but the failing one; no output is made, no definition
\* changed; and once an interpretation has failed it takes no further step.
C10_UnderflowHalts ==
    [][/\ pc # "raised"
       /\ (TakesWord /\ Word \in PoppingBuiltins /\ Word \notin DOMAIN definitions
              /\ Len(stack) < Pops(Word)) =>
            /\ err' = StackUnderflow
            /\ pc' = "raised"
            /\ program' = Front(program)
            /\ output' = output
            /\ definitions' = definitions]_vars

\* `unless 1` on an empty stack: the failure is raised and `1` is still there
C10_Witness ==
    /\ pc = "raised"
    /\ err = StackUnderflow
    /\ last = [word |-> W_unless, branch |-> "builtin"]
    /\ call.words = <<W_unless, W_1>>
    /\ call.stack = <<>>
    /\ program = <<W_1>>

-----------------------------------------------------------------------------
(* C11: an unknown word                                                    *)

IsUnknown(w) ==
    /\ w \notin DOMAIN definitions
    /\ w \notin BuiltinNames
    /\ ~DigitString(w)

\* C11: a step of the driver that takes a word that is neither a definition,
\* nor a builtin, nor a digit string writes a message holding that word and
\* raises the exit with status 1, with the stack and the definitions as they
\* were and only that word taken; the only step after a raised failure ends
\* the process with a nonzero status, and it takes no word and changes
\* neither the stack nor the definitions nor the output.
C11_UnknownWordHalts ==
    [][/\ (TakesWord /\ IsUnknown(Word)) =>
            /\ pc' = "raised"
            /\ err' = SystemExit1
            /\ output' = Append(output, [kind |-> "unknown word", val |-> Word])
            /\ program' = Front(program)
            /\ stack' = stack
            /\ definitions' = definitions
       /\ pc = "raised" =>
            /\ pc' = "exited"
            /\ exit' # <<>>
            /\ exit'[1] # 0
            /\ UNCHANGED <<program, stack, definitions, output>>]_vars

\* `5 1x 1`: the process has ended with status 1 after the message about
\* `1x`, with 5 on the stack and `1` never taken
C11_Witness ==
    /\ pc = "exited"
    /\ exit = <<1>>
    /\ last = [word |-> W_1x, branch |-> "unknown"]
    /\ output = <<[kind |-> "unknown word", val |-> W_1x]>>
    /\ program = <<W_1>>
    /\ stack = <<IntV(5)>>

-----------------------------------------------------------------------------
(* SpecSession: a caller that has loaded the module and calls              *)
(* interpret(program), without a stack, up to MaxCalls times               *)

SessionPrograms ==
    { <<>>,
      <<W_1>>,
      <<W_3, W_dup, W_times>>,
      <<W_define, W_sq, W_dup, W_times, W_end>>,
      <<W_2, W_sq, W_print>>,
      <<W_1, W_2, W_plus, W_0, W_equals, W_unless, W_5, W_12, W_minus>>,
      <<W_1x>> }

\* interpret(program): `stack` is bound to the default list
CallInterpret ==
    /\ pc \in {"idle", "returned"}
    /\ k < MaxCalls
    /\ \E ws \in SessionPrograms :
          /\ program' = Reverse(ws)
          /\ call' = [words |-> ws, stack |-> DefaultStack, default |-> TRUE]
    /\ stack' = DefaultStack
    /\ k' = k + 1
    /\ steps' = 0
    /\ last' = NoLast
    /\ pc' = "while"
    /\ UNCHANGED <<argv, definitions, err, output, exit>>

InitSession ==
    /\ argv = <<>>
    /\ k = 0
    /\ program = <<>>
    /\ stack = <<>>
    /\ definitions = EmptyDict
    /\ err = None
    /\ pc = "idle"
    /\ output = <<>>
    /\ exit = <<>>
    /\ steps = 0
    /\ call = [words |-> <<>>, stack |-> <<>>, default |-> TRUE]
    /\ last = NoLast

NextSession ==
    \/ CallInterpret
    \/ ExpandDefinition
    \/ CallPlus
    \/ CallTimes
    \/ CallMinus
    \/ CallDup
    \/ CallDefine
    \/ CallUnless
    \/ CallEquals
    \/ CallPrint
    \/ PushNumber
    \/ UnknownWord
    \/ Return

SpecSession == InitSession /\ [][NextSession]_vars

-----------------------------------------------------------------------------
(* C12: the empty program                                                  *)

\* C12: an interpretation of the empty program takes no word and raises
\* nothing, and what it returns is the stack it was passed, unchanged, when
\* it was passed one, and the empty stack when it was passed none, whatever
\* was interpreted before.
C12_EmptyProgram ==
    (call.words = <<>> /\ pc \in {"while", "returned", "raised"}) =>
        /\ pc # "raised"
        /\ err = None
        /\ steps = 0
        /\ pc = "returned" =>
              IF call.default THEN stack = <<>> ELSE stack = call.stack

-----------------------------------------------------------------------------
(* C13: what `:` does to the program, the definitions and the stack        *)

\* the words after the one being taken, in the order they were written
Following == Reverse(Front(program))

\* the step takes `:` and the words after it are N t1 ... tk ; R
DefinesWord ==
    /\ TakesWord
    /\ Word = W_define
    /\ W_define \notin DOMAIN definitions
    /\ Following # <<>>
    /\ W_end \in Range(Tail(Following))

\* N, t1 ... tk and R of the `:` being taken
DefinedName == Head(Following)
DefinedBody == SubSeq(Tail(Following), 1, FirstEnd(Tail(Following)) - 1)
DefinedRest ==
    SubSeq(Tail(Following), FirstEnd(Tail(Following)) + 1, Len(Tail(Following)))

\* C13: the step that takes `:` in front of N t1 ... tk ; R is one step that
\* raises nothing, leaves exactly R to run, stores t1 ... tk under N so that
\* an expansion of N puts t1 next and tk last (the stored list is run from
\* its end), leaves the stack, the output and every other definition as they
\* were, whatever words t1 ... tk are.
C13_DefineStoresBody ==
    [][DefinesWord =>
          /\ pc' = "while"
          /\ err' = None
          /\ program' = Reverse(DefinedRest)
          /\ DOMAIN definitions' = DOMAIN definitions \cup {DefinedName}
          /\ Reverse(definitions'[DefinedName]) = DefinedBody
          /\ \A w \in DOMAIN definitions \ {DefinedName} :
                definitions'[w] = definitions[w]
          /\ stack' = stack
          /\ output' = output]_vars

\* in `: sq dup * ; : 12 sq sq ; 12` on [2], the second `:` has stored the
\* body `sq sq`, made of a defined word, beside the body of sq
C13_Witness ==
    /\ call.words = <<W_define, W_sq, W_dup, W_times, W_end,
                      W_define, W_12, W_sq, W_sq, W_end, W_12>>
    /\ steps = 2
    /\ last = [word |-> W_define, branch |-> "builtin"]
    /\ program = <<W_12>>
    /\ stack = <<IntV(2)>>
    /\ definitions = DictSet(DictSet(EmptyDict, W_sq, <<W_times, W_dup>>),
                             W_12, <<W_sq, W_sq>>)

-----------------------------------------------------------------------------
(* C14: only `:` changes the definitions                                   *)

\* the step takes a word that has a definition
ExpandsWord == TakesWord /\ Word \in DOMAIN definitions

\* C14: a step that changes the definitions map is a step that takes the
\* builtin `:`; a step that expands a defined word puts the stored body in
\* place of the word and leaves the map as it was; so in `: W b1 ... bn ; W R`
\* with no second definition, every expansion of W, the recursive ones
\* included, puts the same b1 ... bn in the program.
C14_OnlyDefineChangesDefinitions ==
    [][/\ definitions' # definitions =>
            /\ TakesWord
            /\ Word = W_define
            /\ W_define \notin DOMAIN definitions
       /\ ExpandsWord =>
            /\ program' = Front(program) \o definitions[Word]
            /\ definitions' = definitions
       /\ (ExpandsWord /\ DefinesThenInvokes(call.words) /\ Word = call.words[2]) =>
            program' = Front(program) \o Reverse(BodyOf(call.words))]_vars

\* `: sq 1 sq ; sq`: sq has been expanded a third time, from inside its own
\* body, and its stored body is the one defined
C14_Witness ==
    /\ call.words = <<W_define, W_sq, W_1, W_sq, W_end, W_sq>>
    /\ call.stack = <<>>
    /\ steps = 6
    /\ last = [word |-> W_sq, branch |-> "definition"]
    /\ program = <<W_sq, W_1>>
    /\ stack = <<IntV(1), IntV(1)>>
    /\ definitions = DictSet(EmptyDict, W_sq, <<W_sq, W_1>>)

-----------------------------------------------------------------------------
(* C15: a word that invokes itself without an `unless` in front            *)

\* the body stored for w invokes w and holds no `unless`
SelfInvoking(w) ==
    /\ w \in DOMAIN definitions
    /\ w \in Range(definitions[w])
    /\ W_unless \notin Range(definitions[w])

-----------------------------------------------------------------------------
(* SpecLoop: one call interpret(program, stack) whose program defines      *)
(* `down` and counts down from a number; the process is not stopped, so    *)
(* the loop takes its next iteration whenever there is one                 *)

LoopDefinition ==
    <<W_define, W_down, W_1, W_minus, W_dup, W_0, W_equals, W_unless, W_down,
      W_end>>

Counts == {W_1, W_2}
LoopTails == {<<>>, <<W_5>>, <<W_5, W_12>>}
LoopSeeds == {<<>>, <<IntV(7)>>}

\* `: down 1 - dup 0 == unless down ; n down R`
LoopCalls ==
    {[words |-> LoopDefinition \o <<n, W_down>> \o tail, stack |-> s,
      default |-> FALSE] :
        n \in Counts, tail \in LoopTails, s \in LoopSeeds}

InitLoop ==
    /\ call \in LoopCalls
    /\ program = Reverse(call.words)
    /\ stack = call.stack
    /\ definitions = EmptyDict
    /\ err = None
    /\ pc = "while"
    /\ output = <<>>
    /\ exit = <<>>
    /\ steps = 0
    /\ last = NoLast
    /\ argv = <<>>
    /\ k = 0

NextLoop ==
    \/ ExpandDefinition
    \/ CallMinus
    \/ CallDup
    \/ CallDefine
    \/ CallUnless
    \/ CallEquals
    \/ PushNumber
    \/ Return

SpecLoop == InitLoop /\ [][NextLoop]_vars /\ WF_vars(NextLoop)

-----------------------------------------------------------------------------
(* C16: a recursive call guarded by `unless` is a loop that ends           *)

\* n and R of the call `: down ... ; n down R`
LoopCount == int(call.words[Len(LoopDefinition) + 1])
LoopTail == SubSeq(call.words, Len(LoopDefinition) + 3, Len(call.words))

\* the values a sequence of numbers pushes
Pushed(ws) == [i \in 1..Len(ws) |-> IntV(int(ws[i]))]

\* how many of the first n iterations from m expand the defined word w
RECURSIVE ExpansionsOf(_, _, _)
ExpansionsOf(w, m, n) ==
    IF n = 0 \/ m.program = <<>> \/ m.err # None THEN 0
    ELSE (IF Last(m.program) = w /\ w \in DOMAIN m.definitions THEN 1 ELSE 0)
            + ExpansionsOf(w, interpret_iteration(m), n - 1)

\* the call has returned: no word is left, nothing was raised, the loop has
\* left 0 on the stack it was given and the numbers after it are above it,
\* and `down` was expanded exactly n times
LoopDone ==
    /\ pc = "returned"
    /\ program = <<>>
    /\ err = None
    /\ stack = call.stack \o <<IntV(0)>> \o Pushed(LoopTail)
    /\ Machine = Run(Start(call.words, call.stack), steps)
    /\ ExpansionsOf(W_down, Start(call.words, call.stack), steps) = LoopCount

\* C16: the run of `: down 1 - dup 0 == unless down ; n down R` from a stack
\* S eventually returns with S, 0 and the numbers of R on the stack, after
\* exactly n expansions of `down`; and once the definition is stored the
\* words left to run are never more than one body of `down` and R.
C16_GuardedLoopTerminates ==
    /\ <>LoopDone
    /\ [](steps >= 2 =>
            Len(program) <= Len(definitions[W_down]) + Len(LoopTail))

\* `2 down 5` from the empty stack has returned [0, 5], 17 iterations after
\* the start
C16_Witness ==
    /\ pc = "returned"
    /\ call.words = LoopDefinition \o <<W_2, W_down, W_5>>
    /\ call.stack = <<>>
    /\ stack = <<IntV(0), IntV(5)>>
    /\ steps = 17
    /\ last = [word |-> W_5, branch |-> "number"]

-----------------------------------------------------------------------------
(* C17: without definitions every iteration shortens the program           *)

\* nothing is defined and the program of the call holds no `:`
NoDefinitions == DOMAIN definitions = {} /\ W_define \notin Range(call.words)

\* C17: when nothing is defined and the program holds no `:`, an iteration
\* of the loop leaves fewer words than it found and defines nothing, and the
\* iterations taken and the words left are together never more than the
\* words of the program: a program of n words has returned or failed after
\* at most n iterations.
C17_StepsShortenProgram ==
    [][(TakesWord /\ NoDefinitions) =>
          /\ Len(program') < Len(program)
          /\ DOMAIN definitions' = {}
          /\ steps' + Len(program') <= Len(call.words)
          /\ (pc' = "while" /\ program' # <<>>) => steps' < Len(call.words)]_vars

\* `12 2 - 0 +` on the empty stack has returned [10] after five iterations
C17_Witness ==
    /\ call.words = <<W_12, W_2, W_minus, W_0, W_plus>>
    /\ call.stack = <<>>
    /\ NoDefinitions
    /\ pc = "returned"
    /\ steps = 5
    /\ program = <<>>
    /\ stack = <<IntV(10)>>

-----------------------------------------------------------------------------
(* C18: `unless` with a true condition and nothing to skip                 *)

\* C18: when `unless` is the last word of the program and the value on top
\* of the stack is truthy, the step raises "pop from empty list" and the
\* loop is left by that failure, never by a normal return; the condition is
\* off the stack, the values under it are untouched, and nothing else has
\* changed.
C18_UnlessNothingToSkip ==
    [][(RunsUnless /\ IsTruthy(Last(stack)) /\ Len(program) = 1) =>
          /\ pc' = "raised"
          /\ err' = PopFromEmptyList
          /\ stack' = Front(stack)
          /\ program' = <<>>
          /\ definitions' = definitions
          /\ output' = output]_vars

\* `unless` alone on the stack [7, True]: the call has failed with 7 left on
\* the stack
C18_Witness ==
    /\ call.words = <<W_unless>>
    /\ call.stack = <<IntV(7), BoolV(TRUE)>>
    /\ pc = "raised"
    /\ err = PopFromEmptyList
    /\ last = [word |-> W_unless, branch |-> "builtin"]
    /\ program = <<>>
    /\ stack = <<IntV(7)>>

====
